---- MODULE Spec2Model ----
(***************************************************************************)
(* Model of src/backend/services/metrics.py: the request middleware        *)
(* (MetricsMiddleware), the three call wrappers (collect_metrics_chat,     *)
(* collect_metrics_chat_stream, collect_metrics_rerank), the dispatcher    *)
(* (run_loop) and the reporter (report_metrics).                           *)
(*                                                                         *)
(* One instrumented operation is followed per behaviour; `op` says which.  *)
(* Python values are modelled as records of strings; None is NULL.         *)
(***************************************************************************)
EXTENDS Integers, Sequences, FiniteSets, TLC

VARIABLES
    op,              \* which instrumented operation this behaviour follows
    pc,              \* position of the instrumented code path
    REPORT_ENDPOINT, \* module-level configuration, read once at import
    loopRunning,     \* is an asyncio event loop running in the calling context
    clock,           \* last value returned by time.perf_counter()
    start_time,      \* local start_time of the wrapper / middleware
    kwargs,          \* keyword arguments the caller passed to the wrapper
    wkwargs,         \* the wrapper's local name `kwargs`
    func_kwargs,     \* keyword arguments the wrapped call received
    func_outcome,    \* what the wrapped call / call_next did
    metrics_data,    \* the wrapper's local name `metrics_data`
    response_dict,   \* the wrapper's local name `response_dict`
    pending,         \* exception in flight inside the wrapper, if any
    caller,          \* what the caller of the wrapper / middleware observed
    upstream,        \* items the upstream stream has produced so far
    upstream_end,    \* how the upstream stream ended
    yielded,         \* items the streaming wrapper has yielded so far
    requests,        \* number of next() calls made by the stream's consumer
    event_dict,      \* the streaming wrapper's local name `event_dict`
    request,         \* the inbound request (scope, headers, state)
    handed,          \* arguments of the run_loop calls made so far
    log,             \* signals written by logging.info in report_metrics
    warnings,        \* number of "No metrics data or endpoint set" warnings
    posts,           \* outcome of each client.post attempt made so far
    task             \* the detached report task created by run_loop

vars == <<op, pc, REPORT_ENDPOINT, loopRunning, clock, start_time, kwargs,
          wkwargs, func_kwargs, func_outcome, metrics_data, response_dict,
          pending, caller, upstream, upstream_end, yielded, requests,
          event_dict, request, handed, log, warnings, posts, task>>

reporterVars == <<handed, log, warnings, posts, task>>
streamVars == <<upstream, upstream_end, yielded, requests, event_dict>>
callVars == <<kwargs, wkwargs, func_kwargs, metrics_data, response_dict>>
configVars == <<op, REPORT_ENDPOINT, loopRunning>>

-----------------------------------------------------------------------------
(* Bounds *)

MaxStream == 2      \* longest upstream event sequence explored
MaxTick == 1        \* largest advance of the monotonic clock between reads
MaxPath == 3        \* longest request path explored by SpecEndpoint

-----------------------------------------------------------------------------
(* Python values *)

NULL == "None"
NoneInt == 0 - 1    \* None in an integer-valued field (status_code, duration)

NoExc == [cls |-> NULL, msg |-> NULL, status_code |-> NoneInt]
ApiError429 == [cls |-> "ApiError", msg |-> "too many requests", status_code |-> 429]
PlainError == [cls |-> "Exception", msg |-> "connection reset", status_code |-> NoneInt]
AttributeError == [cls |-> "AttributeError", msg |-> "object has no attribute", status_code |-> NoneInt]
\* raised at the yield by generator.close(); a BaseException, not an Exception
GeneratorExit == [cls |-> "GeneratorExit", msg |-> "", status_code |-> NoneInt]
Exceptions == {ApiError429, PlainError}

ReservedKeys == {"trace_id", "user_id", "agent_id"}
OtherKeys == {"temperature"}
AllKeys == ReservedKeys \cup OtherKeys
KwVal(k) == "val_" \o k
KwargsOf(S) == [k \in S |-> KwVal(k)]
KwargsChoices == {KwargsOf(S) : S \in SUBSET AllKeys}

\* dict.pop(key, None) as used on kwargs: the value and the remaining dict
Pop(d, k) == [val |-> IF k \in DOMAIN d THEN d[k] ELSE NULL,
              rest |-> [x \in (DOMAIN d) \ {k} |-> d[x]]]

-----------------------------------------------------------------------------
(* Results of the wrapped calls: an object (repr = "obj") carrying the     *)
(* nested usage-accounting section meta.billed_units.  `meta` and          *)
(* `billed_units` are "dict" (present), "null" (present, value None) or    *)
(* "missing" (key absent).                                                 *)

ResultFull == [repr |-> "obj", isNone |-> FALSE, meta |-> "dict", billed_units |-> "dict",
               input_tokens |-> "3", output_tokens |-> "5", search_units |-> "1"]
ResultNoMeta == [repr |-> "obj", isNone |-> FALSE, meta |-> "missing", billed_units |-> "missing",
                 input_tokens |-> NULL, output_tokens |-> NULL, search_units |-> NULL]
ResultMetaNull == [repr |-> "obj", isNone |-> FALSE, meta |-> "null", billed_units |-> "missing",
                   input_tokens |-> NULL, output_tokens |-> NULL, search_units |-> NULL]
ResultNone == [repr |-> "obj", isNone |-> TRUE, meta |-> "missing", billed_units |-> "missing",
               input_tokens |-> NULL, output_tokens |-> NULL, search_units |-> NULL]
ResultBilledNull == [repr |-> "obj", isNone |-> FALSE, meta |-> "dict", billed_units |-> "null",
                     input_tokens |-> NULL, output_tokens |-> NULL, search_units |-> NULL]
Results == {ResultFull, ResultNoMeta, ResultMetaNull, ResultBilledNull, ResultNone}

\* the literal {} the wrappers initialise response_dict with
EmptyDict == [ResultNoMeta EXCEPT !.repr = "dict"]

\* backend.chat.collate.to_dict: objects become plain key-value structures,
\* nested objects included; None stays None.
to_dict(x) ==
    IF "response" \in DOMAIN x
    THEN [x EXCEPT !.repr = "dict",
                   !.response = IF @.isNone THEN @ ELSE [@ EXCEPT !.repr = "dict"]]
    ELSE IF "isNone" \in DOMAIN x /\ x.isNone THEN x
    ELSE [x EXCEPT !.repr = "dict"]

-----------------------------------------------------------------------------
(* MetricsData *)

NoSnapshot == [isNone |-> TRUE, attrs |-> <<>>]

\* strings the code takes apart are sequences of one-character strings
Str_unknown == <<"u", "n", "k", "n", "o", "w", "n">>
Str_co == <<"c", "o", ".">>
Str_chat == <<"c", "h", "a", "t">>
Str_rerank == <<"r", "e", "r", "a", "n", "k">>

MetricsData ==
    [repr |-> "obj", method |-> NULL, endpoint_name |-> <<>>, user_id |-> NULL,
     user |-> NoSnapshot, success |-> FALSE, trace_id |-> NULL,
     status_code |-> NoneInt, object_ids |-> <<>>, assistant |-> NoSnapshot,
     assistant_id |-> NULL, duration_ms |-> NoneInt, error |-> NULL,
     input_tokens |-> NULL, output_tokens |-> NULL,
     input_nb_tokens |-> NULL, output_nb_tokens |-> NULL,
     search_units |-> NULL, model |-> NULL]

\* what a local name `metrics_data` can be bound to: a MetricsData object,
\* the (MetricsData, kwargs) tuple initialize_metrics_data returns, or None
AsObject(md) == [isNone |-> FALSE, isTuple |-> FALSE, md |-> md]
AsTuple(md) == [isNone |-> FALSE, isTuple |-> TRUE, md |-> md]
NoneData == [isNone |-> TRUE, isTuple |-> FALSE, md |-> MetricsData]

initialize_metrics_data(func_name, model, kw) ==
    LET t == Pop(kw, "trace_id")
        u == Pop(t.rest, "user_id")
        a == Pop(u.rest, "agent_id")
    IN  [md |-> [MetricsData EXCEPT !.endpoint_name = Str_co \o func_name,
                                    !.method = "POST",
                                    !.trace_id = t.val,
                                    !.user_id = u.val,
                                    !.assistant_id = a.val,
                                    !.model = model,
                                    !.success = TRUE],
         kwargs |-> a.rest]

\* Usage lookup response_dict.get("meta", {}).get("billed_units", {}).get(k):
\* .get on None raises AttributeError.
UsageLookupRaises(rd) == rd.meta = "null" \/ (rd.meta = "dict" /\ rd.billed_units = "null")
UsageLookup(rd, k) == IF rd.meta = "dict" /\ rd.billed_units = "dict" THEN rd[k] ELSE NULL

get_input_output_tokens(rd) ==
    IF rd.isNone THEN [raised |-> FALSE, input |-> NULL, output |-> NULL]
    ELSE IF UsageLookupRaises(rd) THEN [raised |-> TRUE, input |-> NULL, output |-> NULL]
    ELSE [raised |-> FALSE, input |-> UsageLookup(rd, "input_tokens"),
          output |-> UsageLookup(rd, "output_tokens")]

get_search_units(rd) ==
    IF rd.isNone \/ UsageLookupRaises(rd) THEN [raised |-> TRUE, val |-> NULL]
    ELSE [raised |-> FALSE, val |-> UsageLookup(rd, "search_units")]

\* handle_error: attribute assignment on a tuple raises AttributeError
handle_error(m, e) ==
    IF m.isTuple THEN [raised |-> TRUE, m |-> m]
    ELSE [raised |-> FALSE,
          m |-> [m EXCEPT !.md.success = FALSE,
                          !.md.error = e.msg,
                          !.md.status_code = IF e.cls = "ApiError" THEN e.status_code ELSE @]]

-----------------------------------------------------------------------------
(* Reporter and dispatcher *)

Signal(md) == [signal |-> (to_dict(md) @@ [secret |-> "secret"])]

\* client.post returns (any status: raise_for_status is not called) or raises
PostOutcomes == {"responded", "raised"}

\* retries=NUM_RETRIES of the transport (line 21)
NUM_RETRIES == 0

PostAttempts_RetryOnFailure ==
    {[i \in 1..n |-> IF i < n THEN "raised" ELSE o] :
        n \in 1..(NUM_RETRIES + 2), o \in PostOutcomes}

\* the attempts one client.post makes through AsyncHTTPTransport(retries=
\* NUM_RETRIES): every attempt but the last one failed
PostAttempts ==
    {[i \in 1..n |-> IF i < n THEN "raised" ELSE o] :
        n \in 1..(NUM_RETRIES + 1), o \in PostOutcomes}

NoTask == [state |-> "none", data |-> MetricsData]

run_loop_DropWithoutLoop(m) ==
    /\ handed' = Append(handed, m)
    /\ IF m.isNone \/ REPORT_ENDPOINT = NULL
       THEN /\ warnings' = warnings + 1
            /\ UNCHANGED <<log, posts, task>>
       ELSE IF loopRunning
       THEN /\ task' = [state |-> "pending", data |-> m.md]
            /\ UNCHANGED <<log, posts, warnings>>
       ELSE UNCHANGED <<log, posts, task, warnings>>

\* run_loop(m) as called from the instrumented code path
run_loop(m) ==
    /\ handed' = Append(handed, m)
    /\ IF m.isNone \/ REPORT_ENDPOINT = NULL
       THEN /\ warnings' = warnings + 1
            /\ UNCHANGED <<log, posts, task>>
       ELSE IF loopRunning
       THEN \* loop.create_task(report_metrics(metrics_data))
            /\ task' = [state |-> "pending", data |-> m.md]
            /\ UNCHANGED <<log, posts, warnings>>
       ELSE \* asyncio.run(report_metrics(metrics_data)): runs to completion
            /\ log' = Append(log, Signal(m.md))
            /\ \E attempts \in PostAttempts : posts' = posts \o attempts
            /\ UNCHANGED <<task, warnings>>

\* report_metrics up to and including logging.info(signal), as a detached task.
\* The task holds a reference to the object run_loop was given, so to_dict
\* serializes the values that object has when the task runs; task.data keeps
\* the values it had when the task was created.
ReportLog ==
    /\ task.state = "pending"
    /\ log' = Append(log, Signal(metrics_data.md))
    /\ task' = [task EXCEPT !.state = IF REPORT_ENDPOINT = NULL THEN "done" ELSE "logged"]
    /\ UNCHANGED <<configVars, pc, clock, start_time,
                   callVars, func_outcome, pending, caller, streamVars, request,
                   handed, warnings, posts>>

\* the single client.post attempt; a failure is caught and logged
ReportPost ==
    /\ task.state = "logged"
    /\ \E attempts \in PostAttempts : posts' = posts \o attempts
    /\ task' = [task EXCEPT !.state = "done"]
    /\ UNCHANGED <<configVars, pc, clock, start_time,
                   callVars, func_outcome, pending, caller, streamVars, request,
                   handed, log, warnings>>

\* time.perf_counter(): the values the next reading of the monotonic clock can have
perf_counter == clock .. clock + MaxTick

-----------------------------------------------------------------------------
(* Outcomes *)

NoOutcome == [kind |-> "none", exc |-> NoExc, val |-> ResultNone]
Returned(v) == [kind |-> "return", exc |-> NoExc, val |-> v]
Raised(e) == [kind |-> "raise", exc |-> e, val |-> ResultNone]

-----------------------------------------------------------------------------
(* collect_metrics_chat.wrapper *)

ChatModel == "command-r"

\* lines 190-193: the tuple returned by initialize_metrics_data is bound whole
\* to metrics_data; the wrapper's own kwargs are left as the caller passed them
ChatEnter ==
    /\ op = "chat" /\ pc = "start"
    /\ \E kw \in KwargsChoices, t \in perf_counter :
          /\ clock' = t /\ start_time' = t
          /\ kwargs' = kw /\ wkwargs' = kw
          /\ metrics_data' = AsTuple(initialize_metrics_data(Str_chat, ChatModel, kw).md)
    /\ response_dict' = EmptyDict
    /\ pc' = "call"
    /\ UNCHANGED <<configVars, func_kwargs, func_outcome, pending, caller,
                   streamVars, request, reporterVars>>

\* lines 194-196: response = func(self, chat_request, **kwargs); to_dict
ChatCall ==
    /\ op = "chat" /\ pc = "call"
    /\ func_kwargs' = wkwargs
    /\ \/ \E r \in Results :
             /\ func_outcome' = Returned(r)
             /\ response_dict' = to_dict(r)
             /\ pc' = "finally"
             /\ UNCHANGED pending
       \/ \E e \in Exceptions :
             /\ func_outcome' = Raised(e)
             /\ pending' = e
             /\ pc' = "except"
             /\ UNCHANGED response_dict
    /\ UNCHANGED <<configVars, clock, start_time, kwargs, wkwargs, metrics_data,
                   caller, streamVars, request, reporterVars>>

\* lines 197-199: except Exception as e: handle_error; raise e
ChatExcept ==
    /\ op = "chat" /\ pc = "except"
    /\ LET h == handle_error(metrics_data, pending)
       IN  /\ metrics_data' = h.m
           /\ pending' = IF h.raised THEN AttributeError ELSE pending
    /\ pc' = "finally"
    /\ UNCHANGED <<configVars, clock, start_time, kwargs, wkwargs, func_kwargs,
                   func_outcome, response_dict, caller, streamVars, request,
                   reporterVars>>

\* lines 200-207: finally: tokens, duration, run_loop, return response_dict
ChatFinally ==
    /\ op = "chat" /\ pc = "finally"
    /\ LET tok == get_input_output_tokens(response_dict)
       IN  IF tok.raised \/ metrics_data.isTuple
           THEN \* the lookup or the attribute assignment raises inside finally
                /\ pending' = AttributeError
                /\ caller' = Raised(AttributeError)
                /\ UNCHANGED <<clock, metrics_data, reporterVars>>
           ELSE \E t \in perf_counter :
                /\ clock' = t
                /\ metrics_data' = [metrics_data EXCEPT !.md.input_tokens = tok.input,
                                                        !.md.output_tokens = tok.output,
                                                        !.md.duration_ms = t - start_time]
                /\ run_loop(metrics_data')
                /\ pending' = NoExc
                /\ caller' = Returned(response_dict)
    /\ pc' = "done"
    /\ UNCHANGED <<configVars, start_time, kwargs, wkwargs, func_kwargs,
                   func_outcome, response_dict, streamVars, request>>

-----------------------------------------------------------------------------
(* collect_metrics_rerank.wrapper *)

\* lines 247-250
RerankEnter ==
    /\ op = "rerank" /\ pc = "start"
    /\ \E kw \in KwargsChoices, t \in perf_counter :
          /\ clock' = t /\ start_time' = t
          /\ kwargs' = kw
          /\ LET i == initialize_metrics_data(Str_rerank, NULL, kw)
             IN  /\ metrics_data' = AsObject(i.md)
                 /\ wkwargs' = i.kwargs
    /\ response_dict' = EmptyDict
    /\ pc' = "call"
    /\ UNCHANGED <<configVars, func_kwargs, func_outcome, pending, caller,
                   streamVars, request, reporterVars>>

\* lines 251-254
RerankCall ==
    /\ op = "rerank" /\ pc = "call"
    /\ func_kwargs' = wkwargs
    /\ \/ \E r \in Results :
             /\ func_outcome' = Returned(r)
             /\ response_dict' = to_dict(r)
             /\ LET su == get_search_units(response_dict')
                IN  IF su.raised
                    THEN /\ pending' = AttributeError
                         /\ pc' = "except"
                         /\ UNCHANGED metrics_data
                    ELSE /\ metrics_data' = [metrics_data EXCEPT !.md.search_units = su.val]
                         /\ pc' = "finally"
                         /\ UNCHANGED pending
       \/ \E e \in Exceptions :
             /\ func_outcome' = Raised(e)
             /\ pending' = e
             /\ pc' = "except"
             /\ UNCHANGED <<response_dict, metrics_data>>
    /\ UNCHANGED <<configVars, clock, start_time, kwargs, wkwargs, caller,
                   streamVars, request, reporterVars>>

\* lines 255-257
RerankExcept ==
    /\ op = "rerank" /\ pc = "except"
    /\ LET h == handle_error(metrics_data, pending)
       IN  /\ metrics_data' = h.m
           /\ pending' = IF h.raised THEN AttributeError ELSE pending
    /\ pc' = "finally"
    /\ UNCHANGED <<configVars, clock, start_time, kwargs, wkwargs, func_kwargs,
                   func_outcome, response_dict, caller, streamVars, request,
                   reporterVars>>

\* lines 258-261: the return inside finally discards an exception in flight
RerankFinally ==
    /\ op = "rerank" /\ pc = "finally"
    /\ \E t \in perf_counter :
          /\ clock' = t
          /\ metrics_data' = [metrics_data EXCEPT !.md.duration_ms = t - start_time]
    /\ run_loop(metrics_data')
    /\ pending' = NoExc
    /\ caller' = Returned(response_dict)
    /\ pc' = "done"
    /\ UNCHANGED <<configVars, start_time, kwargs, wkwargs, func_kwargs,
                   func_outcome, response_dict, streamVars, request>>

-----------------------------------------------------------------------------
(* collect_metrics_chat_stream.wrapper: a generator function *)

STREAM_END == "stream-end"

TextEvent ==
    [repr |-> "obj", event_type |-> "text-generation", finish_reason |-> NULL,
     error |-> NULL, response |-> ResultNone]
EndEvent(fr, resp) ==
    [repr |-> "obj", event_type |-> STREAM_END, finish_reason |-> fr,
     error |-> IF fr = "ERROR" THEN "stream failed" ELSE NULL, response |-> resp]
FinishReasons == {"COMPLETE", "MAX_TOKENS", "ERROR"}
EndPayloads == {ResultFull, ResultMetaNull, ResultNone}
Events == {TextEvent} \cup {EndEvent(fr, resp) : fr \in FinishReasons, resp \in EndPayloads}

is_event_end_with_error(ed) ==
    /\ ed.event_type = STREAM_END
    /\ ed.finish_reason # "COMPLETE"
    /\ ed.finish_reason # "MAX_TOKENS"

\* calling the wrapper only creates the generator; no line of its body runs
StreamCreate ==
    /\ op = "stream" /\ pc = "start"
    /\ \E kw \in KwargsChoices : kwargs' = kw /\ wkwargs' = kw
    /\ pc' = "suspended_start"
    /\ UNCHANGED <<configVars, clock, start_time, func_kwargs, func_outcome,
                   metrics_data, response_dict, pending, caller, streamVars,
                   request, reporterVars>>

\* the consumer asks for the next item: the generator resumes
StreamRequest ==
    /\ op = "stream" /\ pc \in {"suspended_start", "suspended_yield"}
    /\ requests' = requests + 1
    /\ pc' = IF pc = "suspended_start" THEN "enter" ELSE "pull"
    /\ UNCHANGED <<configVars, clock, start_time, callVars, func_outcome, pending,
                   caller, upstream, upstream_end, yielded, event_dict, request,
                   reporterVars>>

\* lines 215-218: the wrapped call is made outside the try block
StreamEnter ==
    /\ op = "stream" /\ pc = "enter"
    /\ \E t \in perf_counter :
          /\ clock' = t /\ start_time' = t
    /\ LET i == initialize_metrics_data(Str_chat, ChatModel, wkwargs)
       IN  /\ metrics_data' = AsObject(i.md)
           /\ wkwargs' = i.kwargs
           /\ func_kwargs' = i.kwargs
    /\ \/ /\ func_outcome' = Returned(ResultNone)
          /\ pc' = "pull"
          /\ UNCHANGED <<pending, caller>>
       \/ \E e \in Exceptions :
             /\ func_outcome' = Raised(e)
             /\ pending' = e
             /\ caller' = Raised(e)
             /\ pc' = "done"
    /\ UNCHANGED <<configVars, kwargs, response_dict, streamVars, request,
                   reporterVars>>

\* line 221: the for loop asks the upstream sequence for its next item
StreamPull ==
    /\ op = "stream" /\ pc = "pull"
    /\ \/ /\ Len(upstream) < MaxStream
          /\ \E ev \in Events :
                /\ upstream' = Append(upstream, ev)
                /\ event_dict' = to_dict(ev)
          /\ pc' = "inspect"
          /\ UNCHANGED <<upstream_end, pending>>
       \/ /\ upstream_end' = "exhausted"
          /\ pc' = "finally"
          /\ UNCHANGED <<upstream, event_dict, pending>>
       \/ \E e \in Exceptions :
             /\ upstream_end' = "raised"
             /\ pending' = e
             /\ pc' = "except"
             /\ UNCHANGED <<upstream, event_dict>>
    /\ UNCHANGED <<configVars, clock, start_time, callVars, func_outcome, caller,
                   yielded, requests, request, reporterVars>>

\* lines 224-233: inspect the item, then yield it and suspend
StreamInspect ==
    /\ op = "stream" /\ pc = "inspect"
    /\ LET m1 == IF is_event_end_with_error(event_dict)
                 THEN [metrics_data EXCEPT !.md.success = FALSE,
                                           !.md.error = event_dict.error]
                 ELSE metrics_data
           tok == get_input_output_tokens(event_dict.response)
       IN  IF event_dict.event_type = STREAM_END /\ tok.raised
           THEN /\ metrics_data' = m1
                /\ pending' = AttributeError
                /\ pc' = "except"
                /\ UNCHANGED yielded
           ELSE /\ metrics_data' =
                      IF event_dict.event_type = STREAM_END
                      THEN [m1 EXCEPT !.md.input_nb_tokens = tok.input,
                                      !.md.output_nb_tokens = tok.output]
                      ELSE m1
                /\ yielded' = Append(yielded, event_dict)
                /\ pc' = "suspended_yield"
                /\ UNCHANGED pending
    /\ UNCHANGED <<configVars, clock, start_time, kwargs, wkwargs, func_kwargs,
                   func_outcome, response_dict, caller, upstream, upstream_end,
                   requests, event_dict, request, reporterVars>>

StreamClose_AsError ==
    /\ op = "stream" /\ pc \in {"suspended_start", "suspended_yield"}
    /\ upstream_end' = "closed"
    /\ IF pc = "suspended_start"
       THEN /\ caller' = Returned(ResultNone)
            /\ pc' = "done"
            /\ UNCHANGED pending
       ELSE /\ pending' = GeneratorExit
            /\ pc' = "except"
            /\ UNCHANGED caller
    /\ UNCHANGED <<configVars, clock, start_time, callVars, func_outcome,
                   upstream, yielded, requests, event_dict, request, reporterVars>>

\* the consumer closes the generator instead of asking for the next item:
\* GeneratorExit is raised at the yield (line 233), passes `except Exception`
\* and runs the finally block; a generator that never started just ends
StreamClose ==
    /\ op = "stream" /\ pc \in {"suspended_start", "suspended_yield"}
    /\ upstream_end' = "closed"
    /\ IF pc = "suspended_start"
       THEN /\ caller' = Returned(ResultNone)
            /\ pc' = "done"
            /\ UNCHANGED pending
       ELSE /\ pending' = GeneratorExit
            /\ pc' = "finally"
            /\ UNCHANGED caller
    /\ UNCHANGED <<configVars, clock, start_time, callVars, func_outcome,
                   upstream, yielded, requests, event_dict, request, reporterVars>>

\* lines 234-236
StreamExcept ==
    /\ op = "stream" /\ pc = "except"
    /\ LET h == handle_error(metrics_data, pending)
       IN  /\ metrics_data' = h.m
           /\ pending' = IF h.raised THEN AttributeError ELSE pending
    /\ pc' = "finally"
    /\ UNCHANGED <<configVars, clock, start_time, kwargs, wkwargs, func_kwargs,
                   func_outcome, response_dict, caller, streamVars, request,
                   reporterVars>>

StreamFinally_DispatchOnlyOnSuccess ==
    /\ op = "stream" /\ pc = "finally"
    /\ \E t \in perf_counter :
          /\ clock' = t
          /\ metrics_data' = [metrics_data EXCEPT !.md.duration_ms = t - start_time]
    /\ IF pending = NoExc THEN run_loop(metrics_data') ELSE UNCHANGED reporterVars
    /\ caller' = IF pending \in {NoExc, GeneratorExit} THEN Returned(ResultNone)
                 ELSE Raised(pending)
    /\ pc' = "done"
    /\ UNCHANGED <<configVars, start_time, kwargs, wkwargs, func_kwargs,
                   func_outcome, response_dict, pending, streamVars, request>>

StreamFinally_DurationAfterDispatch ==
    /\ op = "stream" /\ pc = "finally"
    /\ run_loop(metrics_data)
    /\ \E t \in perf_counter :
          /\ clock' = t
          /\ metrics_data' = [metrics_data EXCEPT !.md.duration_ms = t - start_time]
    /\ caller' = IF pending \in {NoExc, GeneratorExit} THEN Returned(ResultNone)
                 ELSE Raised(pending)
    /\ pc' = "done"
    /\ UNCHANGED <<configVars, start_time, kwargs, wkwargs, func_kwargs,
                   func_outcome, response_dict, pending, streamVars, request>>

\* lines 237-239: finally; then the exception in flight, if any, propagates,
\* else the generator returns and the consumer sees the end of the sequence
StreamFinally ==
    /\ op = "stream" /\ pc = "finally"
    /\ \E t \in perf_counter :
          /\ clock' = t
          /\ metrics_data' = [metrics_data EXCEPT !.md.duration_ms = t - start_time]
    /\ run_loop(metrics_data')
    /\ caller' = IF pending \in {NoExc, GeneratorExit} THEN Returned(ResultNone)
                 ELSE Raised(pending)
    /\ pc' = "done"
    /\ UNCHANGED <<configVars, start_time, kwargs, wkwargs, func_kwargs,
                   func_outcome, response_dict, pending, streamVars, request>>

-----------------------------------------------------------------------------
(* MetricsMiddleware *)

UpperCase == <<"A", "B", "C", "D", "E", "F", "G", "H", "I", "J", "K", "L", "M",
               "N", "O", "P", "Q", "R", "S", "T", "U", "V", "W", "X", "Y", "Z">>
LowerCase == <<"a", "b", "c", "d", "e", "f", "g", "h", "i", "j", "k", "l", "m",
               "n", "o", "p", "q", "r", "s", "t", "u", "v", "w", "x", "y", "z">>

\* str.lower()
LowerChar(c) ==
    IF \E i \in 1..Len(UpperCase) : UpperCase[i] = c
    THEN LowerCase[CHOOSE i \in 1..Len(UpperCase) : UpperCase[i] = c]
    ELSE c
Lower(s) == [i \in 1..Len(s) |-> LowerChar(s[i])]

\* str.replace(v, t) with v empty: t before every character and at the end
RECURSIVE Intersperse(_, _)
Intersperse(s, t) ==
    IF s = <<>> THEN t ELSE t \o <<Head(s)>> \o Intersperse(Tail(s), t)

\* str.replace(v, t): non-overlapping occurrences, left to right
RECURSIVE Replace(_, _, _)
Replace(s, v, t) ==
    IF v = <<>> THEN Intersperse(s, t)
    ELSE IF Len(s) < Len(v) THEN s
    ELSE IF SubSeq(s, 1, Len(v)) = v
         THEN t \o Replace(SubSeq(s, Len(v) + 1, Len(s)), v, t)
    ELSE <<Head(s)>> \o Replace(Tail(s), v, t)

\* the loop over request.path_params.items(), in insertion order
RECURSIVE ReplaceParams(_, _)
ReplaceParams(path, params) ==
    IF params = <<>> THEN path
    ELSE ReplaceParams(Replace(path, Head(params).value, <<":">> \o Head(params).key),
                       Tail(params))

StripSlash_Always(path) ==
    IF Len(path) > 0 THEN SubSeq(path, 1, Len(path) - 1) ELSE path

StripSlash(path) ==
    IF Len(path) > 0 /\ path[Len(path)] = "/" THEN SubSeq(path, 1, Len(path) - 1) ELSE path

get_method(req) ==
    IF req.has_method THEN Lower(req.method) ELSE Str_unknown

get_endpoint_name(req) ==
    IF req.has_path
    THEN Lower(StripSlash(ReplaceParams(req.path, req.path_params)))
    ELSE Str_unknown

get_status_code(resp) == IF resp.has_status THEN resp.status_code ELSE 500

get_success_Inclusive(resp) ==
    IF resp.has_status THEN 200 <= resp.status_code /\ resp.status_code <= 400 ELSE FALSE

get_success(resp) ==
    IF resp.has_status THEN 200 <= resp.status_code /\ resp.status_code < 400 ELSE FALSE

\* reading attribute a of a context object; a missing one raises AttributeError
HasAttrs(obj, A) == A \subseteq DOMAIN obj.attrs

\* `not user_id`: None and the empty string are falsy
Falsy(v) == v = NULL \/ v = ""

get_user_id_ContextFirst(req) ==
    IF ~req.user.isNone /\ HasAttrs(req.user, {"id"}) THEN req.user.attrs["id"]
    ELSE IF ~Falsy(req.header_user_id) THEN req.header_user_id
    ELSE NULL

get_user_id(req) ==
    IF ~Falsy(req.header_user_id) THEN req.header_user_id
    ELSE IF req.user.isNone THEN NULL
    ELSE IF HasAttrs(req.user, {"id"}) THEN req.user.attrs["id"]
    ELSE NULL

UserAttrs == {"id", "fullname", "email"}

get_user(req) ==
    IF req.user.isNone THEN NoSnapshot
    ELSE IF HasAttrs(req.user, UserAttrs)
         THEN [isNone |-> FALSE, attrs |-> [a \in UserAttrs |-> req.user.attrs[a]]]
    ELSE NoSnapshot

\* dict assignment in a loop: a later pair with the same key wins
RECURSIVE DictOf(_, _)
DictOf(pairs, d) ==
    IF pairs = <<>> THEN d
    ELSE DictOf(Tail(pairs),
                [k \in DOMAIN d \cup {Head(pairs).key} |->
                    IF k = Head(pairs).key THEN Head(pairs).value ELSE d[k]])

get_object_ids(req) == DictOf(req.query_params, DictOf(req.path_params, <<>>))

AgentAttrs == {"id", "version", "name", "temperature", "model", "deployment",
               "description", "preamble", "tools"}

\* no try block: a missing attribute propagates
get_agent(req) ==
    IF req.agent.isNone THEN [raised |-> FALSE, val |-> NoSnapshot]
    ELSE IF HasAttrs(req.agent, AgentAttrs)
         THEN [raised |-> FALSE,
               val |-> [isNone |-> FALSE, attrs |-> [a \in AgentAttrs |-> req.agent.attrs[a]]]]
    ELSE [raised |-> TRUE, val |-> NoSnapshot]

get_data(req, resp, duration_ms) ==
    IF req.scope_type # "http" THEN [raised |-> FALSE, m |-> NoneData]
    ELSE LET agent == get_agent(req)
         IN  IF agent.raised THEN [raised |-> TRUE, m |-> NoneData]
             ELSE [raised |-> FALSE,
                   m |-> AsObject(
                     [MetricsData EXCEPT
                        !.method = get_method(req),
                        !.endpoint_name = get_endpoint_name(req),
                        !.user_id = get_user_id(req),
                        !.user = get_user(req),
                        !.success = get_success(resp),
                        !.trace_id = req.trace_id,
                        !.status_code = get_status_code(resp),
                        !.object_ids = get_object_ids(req),
                        !.assistant = agent.val,
                        !.assistant_id = IF agent.val.isNone THEN NULL
                                         ELSE agent.val.attrs["id"],
                        !.duration_ms = duration_ms])]

\* the inputs explored
Path_users_42 == <<"/", "U", "s", "e", "r", "s", "/", "4", "2">>
Path_chat == <<"/", "c", "h", "a", "t", "/">>
Param_id_42 == [key |-> <<"i", "d">>, value |-> <<"4", "2">>]
Query_q == [key |-> <<"q">>, value |-> <<"x">>]
Routes ==
    {[has_path |-> TRUE, path |-> Path_users_42, path_params |-> <<Param_id_42>>,
      query_params |-> <<>>],
     [has_path |-> TRUE, path |-> Path_chat, path_params |-> <<>>,
      query_params |-> <<Query_q>>],
     [has_path |-> FALSE, path |-> <<>>, path_params |-> <<>>, query_params |-> <<>>]}

UserFull == [isNone |-> FALSE,
             attrs |-> [a \in UserAttrs |-> "user_" \o a]]
UserNoEmail == [isNone |-> FALSE,
                attrs |-> [a \in UserAttrs \ {"email"} |-> "user_" \o a]]
UserNoId == [isNone |-> FALSE,
             attrs |-> [a \in UserAttrs \ {"id"} |-> "user_" \o a]]
UserObjects == {NoSnapshot, UserFull, UserNoEmail, UserNoId}

AgentFull == [isNone |-> FALSE, attrs |-> [a \in AgentAttrs |-> "agent_" \o a]]
AgentNoVersion == [isNone |-> FALSE,
                   attrs |-> [a \in AgentAttrs \ {"version"} |-> "agent_" \o a]]
AgentObjects == {NoSnapshot, AgentFull, AgentNoVersion}

StatusCodes == {199, 200, 399, 400, 404}
Responses ==
    {[repr |-> "obj", has_status |-> TRUE, status_code |-> c] : c \in StatusCodes}
    \cup {[repr |-> "obj", has_status |-> FALSE, status_code |-> NoneInt]}

NoRequest ==
    [scope_type |-> NULL, has_method |-> FALSE, method |-> <<>>,
     header_user_id |-> NULL, has_path |-> FALSE, path |-> <<>>,
     path_params |-> <<>>, query_params |-> <<>>, trace_id |-> NULL,
     user |-> NoSnapshot, agent |-> NoSnapshot]

\* lines 30-34
MwEnter ==
    /\ op = "http" /\ pc = "start"
    /\ \E st \in {"http", "websocket"}, hm \in BOOLEAN,
          hdr \in {NULL, "", "header-user"}, r \in Routes :
          request' = [scope_type |-> st, has_method |-> hm,
                      method |-> <<"G", "E", "T">>, header_user_id |-> hdr,
                      has_path |-> r.has_path, path |-> r.path,
                      path_params |-> r.path_params,
                      query_params |-> r.query_params,
                      trace_id |-> "uuid-1",
                      user |-> NoSnapshot, agent |-> NoSnapshot]
    /\ \E t \in perf_counter :
          /\ clock' = t /\ start_time' = t
    /\ pc' = "call_next"
    /\ UNCHANGED <<configVars, callVars, func_outcome, pending, caller,
                   streamVars, reporterVars>>

\* lines 35-36: the downstream chain may attach user / agent context, then
\* returns a response or raises
MwCallNext ==
    /\ op = "http" /\ pc = "call_next"
    /\ \E u \in UserObjects, a \in AgentObjects :
          request' = [request EXCEPT !.user = u, !.agent = a]
    /\ \/ \E resp \in Responses, t \in perf_counter :
             /\ clock' = t
             /\ func_outcome' = Returned(resp)
             /\ pc' = "get_data"
             /\ UNCHANGED <<pending, caller>>
       \/ \E e \in Exceptions :
             /\ func_outcome' = Raised(e)
             /\ pending' = e
             /\ caller' = Raised(e)
             /\ pc' = "done"
             /\ UNCHANGED clock
    /\ UNCHANGED <<configVars, start_time, callVars, streamVars, reporterVars>>

\* line 38
MwGetData ==
    /\ op = "http" /\ pc = "get_data"
    /\ LET d == get_data(request, func_outcome.val, clock - start_time)
       IN  IF d.raised
           THEN /\ pending' = AttributeError
                /\ caller' = Raised(AttributeError)
                /\ pc' = "done"
                /\ UNCHANGED metrics_data
           ELSE /\ metrics_data' = d.m
                /\ pc' = "run_loop"
                /\ UNCHANGED <<pending, caller>>
    /\ UNCHANGED <<configVars, clock, start_time, kwargs, wkwargs, func_kwargs,
                   func_outcome, response_dict, streamVars, request, reporterVars>>

MwReturn_ResponseOnlyWhenReporting ==
    /\ op = "http" /\ pc = "run_loop"
    /\ run_loop(metrics_data)
    /\ caller' = IF REPORT_ENDPOINT = NULL THEN Returned(ResultNone)
                 ELSE Returned(func_outcome.val)
    /\ pc' = "done"
    /\ UNCHANGED <<configVars, clock, start_time, callVars, func_outcome, pending,
                   streamVars, request>>

\* lines 39-40
MwReturn ==
    /\ op = "http" /\ pc = "run_loop"
    /\ run_loop(metrics_data)
    /\ caller' = Returned(func_outcome.val)
    /\ pc' = "done"
    /\ UNCHANGED <<configVars, clock, start_time, callVars, func_outcome, pending,
                   streamVars, request>>

-----------------------------------------------------------------------------
(* Specification *)

Ops == {"http", "chat", "stream", "rerank"}

InitLocals ==
    /\ pc = "start"
    /\ clock = 0
    /\ start_time = 0
    /\ kwargs = <<>>
    /\ wkwargs = <<>>
    /\ func_kwargs = <<>>
    /\ func_outcome = NoOutcome
    /\ metrics_data = NoneData
    /\ response_dict = EmptyDict
    /\ pending = NoExc
    /\ caller = NoOutcome
    /\ upstream = <<>>
    /\ upstream_end = "open"
    /\ yielded = <<>>
    /\ requests = 0
    /\ event_dict = to_dict(TextEvent)
    /\ handed = <<>>
    /\ log = <<>>
    /\ warnings = 0
    /\ posts = <<>>
    /\ task = NoTask

Init ==
    /\ op \in Ops
    /\ REPORT_ENDPOINT \in {NULL, "https://sink.example/report"}
    \* the middleware and the chat wrapper are coroutines: a loop is running
    /\ loopRunning \in (IF op \in {"http", "chat"} THEN {TRUE} ELSE BOOLEAN)
    /\ request = NoRequest
    /\ InitLocals

Next ==
    \/ MwEnter \/ MwCallNext \/ MwGetData \/ MwReturn
    \/ ChatEnter \/ ChatCall \/ ChatExcept \/ ChatFinally
    \/ StreamCreate \/ StreamRequest \/ StreamEnter \/ StreamPull
    \/ StreamInspect \/ StreamClose \/ StreamExcept \/ StreamFinally
    \/ RerankEnter \/ RerankCall \/ RerankExcept \/ RerankFinally
    \/ ReportLog \/ ReportPost

Spec == Init /\ [][Next]_vars

-----------------------------------------------------------------------------
(* get_endpoint_name on its own: every path of up to MaxPath characters and  *)
(* every mapping of at most one parameter, normalized and normalized again   *)
(* with the same mapping.                                                    *)

PathAlphabet == {"/", "a", "A"}
Paths == UNION {[1..k -> PathAlphabet] : k \in 0..MaxPath}
ParamValues == UNION {[1..k -> PathAlphabet] : k \in 0..1}
ParamMappings == {<<>>} \cup {<<[key |-> <<"a">>, value |-> v]>> : v \in ParamValues}

InitEndpoint ==
    /\ op = "normalize"
    /\ REPORT_ENDPOINT = NULL
    /\ loopRunning = FALSE
    /\ \E hp \in BOOLEAN, path \in Paths, params \in ParamMappings :
          /\ hp \/ path = <<>>
          /\ request = [NoRequest EXCEPT !.scope_type = "http", !.has_path = hp,
                                         !.path = path, !.path_params = params]
    /\ InitLocals

\* endpoint_name = get_endpoint_name(scope, request)
NormalizeOnce ==
    /\ op = "normalize" /\ pc = "start"
    /\ metrics_data' =
          AsObject([MetricsData EXCEPT !.endpoint_name = get_endpoint_name(request)])
    /\ pc' = "normalized"
    /\ UNCHANGED <<configVars, clock, start_time, kwargs, wkwargs, func_kwargs,
                   func_outcome, response_dict, pending, caller, streamVars,
                   request, reporterVars>>

\* the result becomes the path of a second call with the same mapping
NormalizeAgain ==
    /\ op = "normalize" /\ pc = "normalized"
    /\ request' = [request EXCEPT !.has_path = TRUE,
                                  !.path = metrics_data.md.endpoint_name]
    /\ metrics_data' =
          AsObject([MetricsData EXCEPT !.endpoint_name = get_endpoint_name(request')])
    /\ pc' = "renormalized"
    /\ UNCHANGED <<configVars, clock, start_time, kwargs, wkwargs, func_kwargs,
                   func_outcome, response_dict, pending, caller, streamVars,
                   reporterVars>>

NextEndpoint == NormalizeOnce \/ NormalizeAgain

SpecEndpoint == InitEndpoint /\ [][NextEndpoint]_vars

-----------------------------------------------------------------------------
(* Properties *)

CallOps == {"chat", "stream", "rerank"}

\* C1: whenever the wrapped call raises an exception e, the caller of the
\* wrapper observes exactly e: not a return value, not another exception.
C1_SameException ==
    (op \in CallOps /\ pc = "done" /\ func_outcome.kind = "raise")
        => caller = Raised(func_outcome.exc)

\* C2: every request of kind http hands a record to run_loop exactly once,
\* whether the downstream chain returned a response or raised.
C2_RecordOnEveryExit ==
    (op = "http" /\ pc = "done" /\ request.scope_type = "http")
        => Len(handed) = 1

PassedThrough == [i \in 1..Len(upstream) |-> to_dict(upstream[i])]

\* C3: the wrapper's sequence has one item per upstream item, in order, and
\* upstream is asked for an item only once the consumer asked for one.
C3_PassThrough ==
    op = "stream" =>
        /\ Len(upstream) <= requests
        /\ pc \in {"suspended_yield", "done"} => yielded = PassedThrough

\* C4: once the upstream sequence is exhausted or raised, duration_ms is set
\* and the record has been handed to run_loop exactly once; never twice.
C4_DispatchedOnce ==
    op = "stream" =>
        /\ Len(handed) <= 1
        /\ pc # "done" => Len(handed) = 0
        /\ (pc = "done" /\ upstream_end \in {"exhausted", "raised"}) =>
              /\ Len(handed) = 1
              /\ ~handed[1].isNone
              /\ handed[1].md.duration_ms >= 0
              /\ handed[1].md.duration_ms = clock - start_time

C4_Witness ==
    /\ op = "stream" /\ pc = "done"
    /\ upstream_end = "raised" /\ Len(upstream) >= 1
    /\ Len(handed) = 1

EndErrors ==
    {i \in 1..Len(upstream) : is_event_end_with_error(to_dict(upstream[i]))}
LastOf(S) == CHOOSE i \in S : \A j \in S : j <= i

\* C5: a stream-end item whose finish reason is neither COMPLETE nor
\* MAX_TOKENS gives success = false and error = the item's error, every item
\* is still yielded and the wrapper does not raise; otherwise success stays
\* true.
C5_EndWithError ==
    (op = "stream" /\ pc = "done" /\ func_outcome.kind = "return"
        /\ upstream_end # "raised") =>
        /\ Len(handed) = 1
        /\ yielded = PassedThrough
        /\ caller.kind = "return"
        /\ EndErrors # {} =>
              /\ handed[1].md.success = FALSE
              /\ handed[1].md.error = upstream[LastOf(EndErrors)].error
        /\ EndErrors = {} => handed[1].md.success = TRUE

\* C6: when the wrapped chat / rerank call returns r, exactly one record with
\* success = true and duration_ms set is dispatched and the caller gets r.
C6_BlockingSuccess ==
    (op \in {"chat", "rerank"} /\ pc = "done" /\ func_outcome.kind = "return") =>
        /\ Len(handed) = 1
        /\ handed[1].md.success = TRUE
        /\ handed[1].md.duration_ms >= 0
        /\ caller = Returned(func_outcome.val)

Seed(k) == IF k \in DOMAIN kwargs THEN kwargs[k] ELSE NULL

\* C7: the wrapped call receives the caller's keyword arguments without
\* trace_id, user_id and agent_id, which seed the record.
C7_ReservedKeysConsumed ==
    (op \in CallOps /\ func_outcome.kind # "none") =>
        /\ func_kwargs = [k \in (DOMAIN kwargs) \ ReservedKeys |-> kwargs[k]]
        /\ metrics_data.md.trace_id = Seed("trace_id")
        /\ metrics_data.md.user_id = Seed("user_id")
        /\ metrics_data.md.assistant_id = Seed("agent_id")

\* C8: what dispatch returns is the downstream response itself, and whether
\* it returns is decided by the request and the downstream chain alone, not
\* by the endpoint configuration or the fate of the report.
C8_ResponseUntouched ==
    (op = "http" /\ pc = "done") =>
        /\ caller.kind = "return" =>
              func_outcome.kind = "return" /\ caller.val = func_outcome.val
        /\ caller.kind = "return" <=>
              /\ func_outcome.kind = "return"
              /\ ~get_data(request, func_outcome.val, 0).raised

C8_Witness ==
    /\ op = "http" /\ pc = "done" /\ caller.kind = "return"
    /\ REPORT_ENDPOINT # NULL
    /\ task.state = "done" /\ posts = <<"raised">>

\* C9: a failing extractor yields its default; the record is still built and
\* dispatched and the response still returned.
C9_ExtractorsIsolated ==
    (op = "http" /\ pc = "done" /\ func_outcome.kind = "return"
        /\ request.scope_type = "http") =>
        /\ caller = Returned(func_outcome.val)
        /\ Len(handed) = 1
        /\ ~handed[1].isNone

\* C10: every record handed to run_loop is written to the local log under
\* the key signal, also when no endpoint is configured.
C10_AlwaysLogged ==
    (pc = "done" /\ task.state # "pending") =>
        \A i \in 1..Len(handed) :
            ~handed[i].isNone => \E j \in 1..Len(log) : log[j] = Signal(handed[i].md)

ReportRan ==
    \/ task.state = "done"
    \/ ~loopRunning /\ handed # <<>> /\ ~handed[Len(handed)].isNone /\ REPORT_ENDPOINT # NULL

\* C11: at most one POST attempt per dispatched record: none without an
\* endpoint, exactly one once the report has run with an endpoint; a failed
\* attempt is not retried and is not what the dispatching code's caller sees.
C11_AtMostOnePost ==
    /\ Len(posts) <= 1
    /\ Len(posts) <= Len(handed)
    /\ REPORT_ENDPOINT = NULL => posts = <<>>
    /\ (REPORT_ENDPOINT # NULL /\ ReportRan) => Len(posts) = 1
    /\ (posts # <<>> /\ caller.kind = "raise") =>
          caller.exc = pending /\ pending \in Exceptions \cup {AttributeError}

C11_Witness ==
    /\ REPORT_ENDPOINT # NULL /\ ~loopRunning
    /\ pc = "done" /\ caller.kind = "return"
    /\ posts = <<"raised">>

\* C12: for a record with an endpoint configured, run_loop either creates a
\* detached task and returns before any step of the report has run (a loop
\* is running), or runs the whole report before returning (no loop); the
\* record is skipped in neither mode.
C12_TwoModes ==
    [][(/\ Len(handed') = Len(handed) + 1
        /\ ~handed'[Len(handed')].isNone
        /\ REPORT_ENDPOINT # NULL) =>
          IF loopRunning
          THEN /\ task' = [state |-> "pending", data |-> handed'[Len(handed')].md]
               /\ log' = log
               /\ posts' = posts
          ELSE /\ log' = Append(log, Signal(handed'[Len(handed')].md))
               /\ Len(posts') = Len(posts) + 1
               /\ task' = task]_vars

C12_Witness ==
    /\ REPORT_ENDPOINT # NULL /\ loopRunning
    /\ pc = "done" /\ caller.kind = "return"
    /\ task.state = "pending" /\ log = <<>> /\ posts = <<>>

\* C13: in every record the middleware builds, success holds exactly when
\* status_code is in [200, 400); an unreadable status gives 500 and false.
C13_SuccessIffStatus ==
    \A i \in 1..Len(handed) :
        (op = "http" /\ ~handed[i].isNone) =>
            /\ handed[i].md.success <=>
                  (200 <= handed[i].md.status_code /\ handed[i].md.status_code < 400)
            /\ func_outcome.val.has_status =>
                  handed[i].md.status_code = func_outcome.val.status_code
            /\ ~func_outcome.val.has_status =>
                  handed[i].md.status_code = 500 /\ ~handed[i].md.success

C13_Witness ==
    /\ op = "http" /\ Len(handed) = 1 /\ ~handed[1].isNone
    /\ handed[1].md.status_code = 404 /\ handed[1].md.success = FALSE

\* substring test: v occurs in s (the empty string occurs in every string)
Occurs(v, s) ==
    \E i \in 1..(Len(s) - Len(v) + 1) : SubSeq(s, i, i + Len(v) - 1) = v

EndsWithSlash(s) == Len(s) > 0 /\ s[Len(s)] = "/"

\* C14 as stated: normalizing the normalized result again, with the same
\* mapping, gives the same string, for every path and every mapping.
C14_Idempotent ==
    (op = "normalize" /\ pc = "renormalized")
        => metrics_data.md.endpoint_name = request.path

\* C14 as amended: normalizing the normalized result again gives the same
\* string whenever that result does not end in "/" and contains no
\* parameter value of the mapping.
C14_IdempotentWhenClean ==
    (/\ op = "normalize" /\ pc = "renormalized"
     /\ ~EndsWithSlash(request.path)
     /\ \A i \in 1..Len(request.path_params) :
            ~Occurs(request.path_params[i].value, request.path))
        => metrics_data.md.endpoint_name = request.path

C14_Witness ==
    /\ op = "normalize" /\ pc = "renormalized"
    /\ request.path_params # <<>>
    /\ Occurs(<<":", "a">>, request.path)
    /\ ~Occurs(request.path_params[1].value, request.path)
    /\ ~EndsWithSlash(request.path)
    /\ metrics_data.md.endpoint_name = request.path

\* C15: when the wrapped call raises, a record is dispatched with
\* success = false, error = the exception's message, status_code = the
\* exception's status code exactly for an ApiError, and duration_ms >= 0.
C15_ErrorRecorded ==
    (op \in CallOps /\ pc = "done" /\ func_outcome.kind = "raise") =>
        /\ Len(handed) = 1
        /\ ~handed[1].isNone
        /\ handed[1].md.success = FALSE
        /\ handed[1].md.error = func_outcome.exc.msg
        /\ handed[1].md.status_code =
              (IF func_outcome.exc.cls = "ApiError"
               THEN func_outcome.exc.status_code ELSE NoneInt)
        /\ handed[1].md.duration_ms >= 0

StreamEnds == {i \in 1..Len(upstream) : upstream[i].event_type = STREAM_END}
\* the counter k carried by a response payload, None where there is none
UsageOf(resp, k) ==
    IF ~resp.isNone /\ resp.meta = "dict" /\ resp.billed_units = "dict"
    THEN resp[k] ELSE NULL

\* C16: once a stream-end event was observed, the dispatched record's
\* input_tokens and output_tokens are the counters of that event's response.
C16_EndUsageRecorded ==
    (op = "stream" /\ pc = "done" /\ Len(handed) = 1 /\ StreamEnds # {}) =>
        /\ handed[1].md.input_tokens =
              UsageOf(upstream[LastOf(StreamEnds)].response, "input_tokens")
        /\ handed[1].md.output_tokens =
              UsageOf(upstream[LastOf(StreamEnds)].response, "output_tokens")

\* C17: get_input_output_tokens never raises, whatever the result carries,
\* so the usage lookup never turns a stream whose upstream did not fail into
\* a failure.
C17_UsageNeverFails ==
    /\ (op = "stream" /\ pc = "inspect") =>
          ~get_input_output_tokens(event_dict.response).raised
    /\ (op = "chat" /\ pc = "finally") =>
          ~get_input_output_tokens(response_dict).raised
    /\ (op = "stream" /\ func_outcome.kind = "return" /\ upstream_end = "open") =>
          pending = NoExc

\* C18: after a record was handed to run_loop no field of it is written
\* again, so the report serializes the values it had at dispatch.
C18_NeverMutatedAfterDispatch ==
    /\ handed # <<>> => metrics_data = handed[Len(handed)]
    /\ \A j \in 1..Len(log) : handed # <<>> /\ log[j] = Signal(handed[1].md)
    /\ task.state # "none" => handed # <<>> /\ task.data = handed[1].md

C18_Witness ==
    /\ op = "stream" /\ pc = "done" /\ loopRunning
    /\ task.state = "done"
    /\ Len(handed) = 1 /\ log = <<Signal(handed[1].md)>>
    /\ handed[1].md.duration_ms >= 0

\* C19 as stated: the user context's id wins over the User-Id header, which
\* is used only when there is no user context; None when both are absent.
C19_HeaderIsFallback ==
    (op = "http" /\ Len(handed) = 1 /\ ~handed[1].isNone) =>
        /\ (~request.user.isNone /\ HasAttrs(request.user, {"id"})) =>
              handed[1].md.user_id = request.user.attrs["id"]
        /\ (request.user.isNone /\ ~Falsy(request.header_user_id)) =>
              handed[1].md.user_id = request.header_user_id
        /\ (request.user.isNone /\ Falsy(request.header_user_id)) =>
              handed[1].md.user_id = NULL

\* C19 as amended: a non-empty User-Id header wins; the user context's id is
\* the fallback when the header is absent or empty; None when neither gives
\* an id.
C19_HeaderFirst ==
    (op = "http" /\ Len(handed) = 1 /\ ~handed[1].isNone) =>
        /\ ~Falsy(request.header_user_id) =>
              handed[1].md.user_id = request.header_user_id
        /\ (Falsy(request.header_user_id) /\ ~request.user.isNone
                /\ HasAttrs(request.user, {"id"})) =>
              handed[1].md.user_id = request.user.attrs["id"]
        /\ (Falsy(request.header_user_id)
                /\ (request.user.isNone \/ ~HasAttrs(request.user, {"id"}))) =>
              handed[1].md.user_id = NULL

C19_Witness ==
    /\ op = "http" /\ Len(handed) = 1 /\ ~handed[1].isNone
    /\ request.header_user_id = "header-user"
    /\ request.user = UserFull
    /\ handed[1].md.user_id = "header-user"

\* C20: when the consumer closes the sequence after having taken some items
\* and before upstream is exhausted, the record is dispatched exactly once
\* with duration_ms set, success and error are what the items seen so far
\* made them, and upstream is asked for nothing more.
C20_ClosedEarly ==
    (op = "stream" /\ pc = "done" /\ upstream_end = "closed" /\ requests >= 1) =>
        /\ Len(handed) = 1
        /\ ~handed[1].isNone
        /\ handed[1].md.duration_ms >= 0
        /\ handed[1].md.success = (EndErrors = {})
        /\ handed[1].md.error =
              (IF EndErrors = {} THEN NULL ELSE upstream[LastOf(EndErrors)].error)
        /\ Len(upstream) = requests
        /\ yielded = PassedThrough
        /\ caller.kind = "return"

C20_Witness ==
    /\ op = "stream" /\ pc = "done" /\ upstream_end = "closed"
    /\ Len(yielded) >= 1 /\ Len(handed) = 1
    /\ handed[1].md.success = TRUE

====
